---- MODULE Spec2Model ----
(***************************************************************************)
(* Mi Band heart-rate client (band.c / band.h / main.c).                   *)
(*                                                                         *)
(* Bytes are naturals 0..255; a buffer is a sequence of bytes.  A frame is *)
(* the byte sequence handed to gattlib_write_char_by_uuid or delivered to  *)
(* characteristic_value_updated.  C indices are 0-based: value[k] in the   *)
(* source is ByteAt(value, k, junk) here.                                  *)
(***************************************************************************)
EXTENDS Integers, Sequences, FiniteSets, TLC

VARIABLES device, log, pc, subscribed, now, initial_timestamp, enc, wire, hr, thr

vars == <<device, log, pc, subscribed, now, initial_timestamp, enc, wire, hr, thr>>

(***************************************************************************)
(* Bounds of the model.                                                    *)
(***************************************************************************)
\* events (enable, notifications, pings) of one session
MaxEvents == 3
\* heart-rate notifications of one session
MaxSamples == 2001
\* heart-rate notifications of a session watched for the alert
MaxAlertSamples == 63
\* heart-rate notifications of a session whose start time is watched
MaxClockSamples == 4
\* handler invocations that may run at the same time
MaxDispatches == 3
\* longest payload handed to the encoder
MaxPayloadLen == 40
\* ticks of the wall clock
MaxTime == 1

(***************************************************************************)
(* Program constants.                                                      *)
(***************************************************************************)
mMTU == 23
FirstHeaderSize == 11
NextHeaderSize == 5
RemoteHeaderSize == 14
ContHeaderSize == 5
NonceSize == 16
ECC_PUB_KEY_SIZE == 48
InitialHistSize == 1000

(***************************************************************************)
(* Byte helpers.                                                           *)
(***************************************************************************)
U8(n) == n % 256

RECURSIVE Xor(_, _)
Xor(a, b) ==
    IF a = 0 THEN b
    ELSE IF b = 0 THEN a
    ELSE ((a + b) % 2) + 2 * Xor(a \div 2, b \div 2)

Pattern(n, a, b) == [i \in 1..n |-> (a * i + b) % 256]

\* value[k] of a buffer of Len(value) bytes; a read past its end returns
\* whatever follows it in memory (junk, indexed cyclically).
ByteAt(value, k, junk) ==
    IF k < Len(value) THEN value[k + 1] ELSE junk[(k % Len(junk)) + 1]

\* the n bytes at value + off
BytesAt(value, off, n, junk) == [i \in 1..n |-> ByteAt(value, off + i - 1, junk)]

RECURSIVE Flatten(_)
Flatten(ss) == IF ss = <<>> THEN <<>> ELSE Head(ss) \o Flatten(Tail(ss))

(***************************************************************************)
(* write_chunked_value: the encoder.                                       *)
(***************************************************************************)
\* const int MAX_CHUNKLENGTH = mMTU - 3 - header_size;
MAX_CHUNKLENGTH(header_size) == mMTU - 3 - header_size

CopyBytesShort(remaining, header_size) ==
    IF remaining < MAX_CHUNKLENGTH(header_size) - 1
    THEN remaining ELSE MAX_CHUNKLENGTH(header_size) - 1

\* copybytes = (remaining < MAX_CHUNKLENGTH) ? remaining : MAX_CHUNKLENGTH
CopyBytes(remaining, header_size) ==
    IF remaining < MAX_CHUNKLENGTH(header_size)
    THEN remaining ELSE MAX_CHUNKLENGTH(header_size)

ChunkFlagsStrict(remaining, count, header_size) ==
    (IF count = 0 THEN 1 ELSE 0)
    + (IF remaining < MAX_CHUNKLENGTH(header_size) THEN 6 ELSE 0)

ChunkFlagsEveryFirst(remaining, count, header_size) ==
    1 + (IF remaining <= MAX_CHUNKLENGTH(header_size) THEN 6 ELSE 0)

\* flags |= 0x01 on the first chunk, flags |= 0x06 on the last one
ChunkFlags(remaining, count, header_size) ==
    (IF count = 0 THEN 1 ELSE 0)
    + (IF remaining <= MAX_CHUNKLENGTH(header_size) THEN 6 ELSE 0)

\* one pass of the while loop: the chunk array handed to the write
Chunk(type, handle, data, data_length, remaining, count, header_size) ==
    LET copybytes == CopyBytes(remaining, header_size)
        type8 == U8(type)
        head == << 3, ChunkFlags(remaining, count, header_size), 0,
                   U8(handle), U8(count) >>
        ext == << data_length % 256,
                  (data_length \div 256) % 256,
                  (data_length \div 65536) % 256,
                  (data_length \div 16777216) % 256,
                  type8 % 256,
                  (type8 \div 256) % 256 >>
        from == data_length - remaining
        slice == [i \in 1..copybytes |-> data[from + i]]
    IN  IF count = 0 THEN head \o ext \o slice ELSE head \o slice

RECURSIVE ChunkLoop(_, _, _, _, _, _, _)
ChunkLoop(type, handle, data, data_length, remaining, count, header_size) ==
    IF remaining > 0
    THEN << Chunk(type, handle, data, data_length, remaining, count, header_size) >>
         \o ChunkLoop(type, handle, data, data_length,
                      remaining - CopyBytes(remaining, header_size),
                      count + 1, NextHeaderSize)
    ELSE << >>

\* the frames written, in order
write_chunked_value(type, handle, data, data_length) ==
    ChunkLoop(type, handle, data, data_length, data_length, 0, FirstHeaderSize)

(***************************************************************************)
(* The crypto primitives (tiny-ECDH-c, OpenSSL AES): fixed functions of    *)
(* their inputs.  A private key is named by a number.                      *)
(***************************************************************************)
\* ecdh_generate_keys returns 1 unless the private key is unusable
ecdh_generate_keys_ok(private_key) == private_key # 0

ecdh_public_key(private_key) == Pattern(ECC_PUB_KEY_SIZE, 11, 5 * private_key + 1)

\* ecdh_shared_secret returns 1 unless the other side's point is rejected
ecdh_shared_secret_ok(others_pub) == \E i \in 1..Len(others_pub) : others_pub[i] # 0

ecdh_shared_secret(private_key, others_pub) ==
    [i \in 1..ECC_PUB_KEY_SIZE |->
        (others_pub[i] * (2 * private_key + 1) + 3 * i) % 256]

\* iv = {0}; one 16-byte block under a 128-bit key
encrypt_aes_cbc(key, in) ==
    [i \in 1..NonceSize |->
        (7 * Xor(in[i], key[i]) + 13 * i + key[(i % NonceSize) + 1]) % 256]

(***************************************************************************)
(* Transport operations, as the session issues them.                       *)
(***************************************************************************)
WriteOp(ch, data) == [op |-> "write", ch |-> ch, data |-> data, ret |-> TRUE]

NotificationStartOp(ch, ok) ==
    [op |-> "notification_start", ch |-> ch, data |-> << >>, ret |-> ok]

WriteChunkedOps(ch, type, handle, data, data_length) ==
    LET frames == write_chunked_value(type, handle, data, data_length)
    IN  [i \in 1..Len(frames) |-> WriteOp(ch, frames[i])]

StartCommand == << 21, 1, 1 >>
IntervalCommand == << 20, 0, 1 >>
PubKeyPrefix == << 4, 2, 0, 2 >>
RemoteDataSignature == << 130, 0, 16, 4, 1 >>
AuthAcceptedSignature == << 130, 0, 16, 5, 1 >>

\* start_hr_measure: subscribe, then the two commands
start_hr_measure_ops(hrOk) ==
    << NotificationStartOp("HrMeasure", hrOk),
       WriteOp("HrControl", StartCommand),
       WriteOp("HrControl", IntervalCommand) >>

\* a ping that goes through start_hr_measure, subscribing again
ping_resubscribing_ops == start_hr_measure_ops(TRUE)

\* ping_heart_rate: the two commands
ping_heart_rate_ops ==
    << WriteOp("HrControl", StartCommand), WriteOp("HrControl", IntervalCommand) >>

(***************************************************************************)
(* characteristic_value_updated, chunked transfer read branch.             *)
(***************************************************************************)
SignatureAt(value, junk, sig) ==
    \A k \in 1..5 : ByteAt(value, 8 + k, junk) = sig[k]

IsRemoteData(value, junk) ==
    /\ ByteAt(value, 4, junk) = 0
    /\ SignatureAt(value, junk, RemoteDataSignature)

IsAuthAccepted(value, junk) ==
    /\ ~IsRemoteData(value, junk)
    /\ ByteAt(value, 4, junk) = 0
    /\ SignatureAt(value, junk, AuthAcceptedSignature)

HeaderSizeOfWrong(value, junk) ==
    IF IsRemoteData(value, junk) THEN FirstHeaderSize
    ELSE IF ByteAt(value, 4, junk) > 0 THEN ContHeaderSize
    ELSE 0

\* header_size of a continuation frame left at its initial 0
HeaderSizeOfNoCont(value, junk) ==
    IF IsRemoteData(value, junk) THEN RemoteHeaderSize ELSE 0

\* header_size as the if / else-if chain leaves it
HeaderSizeOf(value, junk) ==
    IF IsRemoteData(value, junk) THEN RemoteHeaderSize
    ELSE IF ByteAt(value, 4, junk) > 0 THEN ContHeaderSize
    ELSE 0

\* device->expectedBytes = value[5] - 3;  (uint8_t)
ExpectedBytesOf(value, junk) == U8(ByteAt(value, 5, junk) - 3)

\* finalSharedSessionAES[i] = device->secretKey[i + 8] ^ device->authKey[i]
SessionKey(authKey, secretKey) ==
    [i \in 1..NonceSize |-> Xor(secretKey[i + 8], authKey[i])]

\* the challenge: command[0] = 0x05, out1, out2
ChallengeCommand(authKey, secretKey, remoteRandom) ==
    << 5 >> \o encrypt_aes_cbc(authKey, remoteRandom)
           \o encrypt_aes_cbc(SessionKey(authKey, secretKey), remoteRandom)

NoResult(dev) ==
    [dev |-> dev, ops |-> << >>, accepted |-> FALSE, done |-> FALSE,
     rnd |-> << >>, pub |-> << >>, key |-> << >>]

ChunkedTransferRead(dev, value, junk, hrOk) ==
    IF ~(Len(value) > 1 /\ value[1] = 3) THEN NoResult(dev)
    ELSE
    LET sequence_number == ByteAt(value, 4, junk)
        remote == IsRemoteData(value, junk)
        accepted == IsAuthAccepted(value, junk)
        header_size == HeaderSizeOf(value, junk)
        pointer0 == IF remote THEN 0 ELSE dev.pointer
        expected == IF remote THEN ExpectedBytesOf(value, junk) ELSE dev.expectedBytes
        bytes_to_copy == U8(Len(value) - header_size)
        pointer == U8(pointer0 + bytes_to_copy)
        done == pointer = expected
        remoteRandom == BytesAt(value, header_size, NonceSize, junk)
        remotePublic == BytesAt(value, header_size + NonceSize, ECC_PUB_KEY_SIZE, junk)
        secretKey == IF done /\ ecdh_shared_secret_ok(remotePublic)
                     THEN ecdh_shared_secret(dev.privateKey, remotePublic)
                     ELSE dev.secretKey
        command == ChallengeCommand(dev.authKey, secretKey, remoteRandom)
    IN  [dev |-> [dev EXCEPT !.pointer = pointer,
                             !.expectedBytes = expected,
                             !.lastSequenceNumber = sequence_number,
                             !.secretKey = secretKey],
         ops |-> (IF accepted THEN start_hr_measure_ops(hrOk) ELSE << >>)
                 \o (IF done
                     THEN WriteChunkedOps("ChunkedW", 130, dev.handle + 1, command, 33)
                     ELSE << >>),
         accepted |-> accepted,
         done |-> done,
         rnd |-> IF done THEN remoteRandom ELSE << >>,
         pub |-> IF done THEN remotePublic ELSE << >>,
         key |-> IF done THEN SessionKey(dev.authKey, secretKey) ELSE << >>]

(***************************************************************************)
(* Frames the band may deliver on the chunked transfer read channel.       *)
(***************************************************************************)
FirstFrame(flags, handle, total, sig, body) ==
    << 3, flags, 0, handle, 0,
       total % 256, (total \div 256) % 256,
       (total \div 65536) % 256, (total \div 16777216) % 256 >> \o sig \o body

ContFrame(flags, handle, index, body) == << 3, flags, 0, handle, index >> \o body

NonceA == Pattern(NonceSize, 1, 16)
NonceB == Pattern(NonceSize, 5, 33)
PubA == Pattern(ECC_PUB_KEY_SIZE, 3, 64)
PubZero == [i \in 1..ECC_PUB_KEY_SIZE |-> 0]

\* a whole remote-data message (3 signature bytes, nonce, public key) in one frame
FrameWhole == FirstFrame(7, 0, 3 + NonceSize + ECC_PUB_KEY_SIZE, RemoteDataSignature,
                         NonceA \o PubA)
\* the same with a public key the curve check rejects
FrameWholeRejected == FirstFrame(7, 0, 3 + NonceSize + ECC_PUB_KEY_SIZE,
                                 RemoteDataSignature, NonceB \o PubZero)
\* the message split after the nonce
FrameNonce == FirstFrame(1, 0, 3 + NonceSize + ECC_PUB_KEY_SIZE, RemoteDataSignature,
                         NonceA)
FramePub == ContFrame(6, 0, 1, PubA)
\* total_length 35 as 16 + 19 payload bytes (the payload starts at byte 11)
Frame35First == FirstFrame(1, 0, 35, RemoteDataSignature, Pattern(13, 1, 16))
Frame35Next == ContFrame(6, 0, 1, Pattern(19, 1, 29))
FrameAccepted == FirstFrame(7, 0, 3, AuthAcceptedSignature, << >>)
FrameUnknown == FirstFrame(7, 0, 3, << 130, 0, 16, 6, 1 >>, << >>)
FrameContEmpty == ContFrame(6, 0, 1, << >>)
FrameContGap == ContFrame(0, 0, 3, Pattern(4, 9, 7))

Frames ==
    { FrameWhole, FrameWholeRejected, FrameNonce, FramePub, Frame35First,
      Frame35Next, FrameAccepted, FrameUnknown, FrameContEmpty, FrameContGap,
      << 3 >>, << 1, 2, 3 >>, << 3, 0, 0 >> }

\* what may lie behind a delivered buffer
JunkTails == { << 0 >>, << 165 >> }

(***************************************************************************)
(* The session.                                                            *)
(***************************************************************************)
\* contents of malloc'ed, never written key buffers
UninitPrivateKeys == { 0, 11 }
UninitSecretKeys == { [i \in 1..ECC_PUB_KEY_SIZE |-> 0], Pattern(ECC_PUB_KEY_SIZE, 7, 204) }
UninitPublicKey == Pattern(ECC_PUB_KEY_SIZE, 0, 205)
AuthKey == Pattern(NonceSize, 17, 1)

\* ble_device_create
NewDevice(privateKey, secretKey) ==
    [handle |-> 0, lastSequenceNumber |-> 0, pointer |-> 0, expectedBytes |-> 0,
     privateKey |-> privateKey, publicKey |-> UninitPublicKey,
     secretKey |-> secretKey, authKey |-> AuthKey,
     hrCount |-> 0, histSize |-> InitialHistSize, hrHist |-> << >>]

Event(kind, value, r) ==
    [kind |-> kind, value |-> value, ops |-> r.ops, accepted |-> r.accepted,
     done |-> r.done, rnd |-> r.rnd, pub |-> r.pub, key |-> r.key]

NoEnc == [data |-> << >>, type |-> 0, handle |-> 0, remaining |-> 0, count |-> 0,
          header_size |-> 0, fed |-> 0]

\* the most recent heart-rate notification: its number, its bytes, the value
\* read, the row index written, whether the buffer was to grow and could,
\* whether the process died, the transport operations made, and whether any
\* growth so far found no memory
NoHr == [n |-> 0, value |-> << >>, result |-> 0, index |-> 0, grew |-> FALSE,
         allocOk |-> TRUE, crashed |-> FALSE, ops |-> << >>, failed |-> FALSE]

\* the invocations of the handler running on threads of their own: where each
\* is, and the sample count it has loaded
NoThreads == [t \in 1..MaxDispatches |-> [at |-> "wait", reg |-> 0]]

Init ==
    /\ hr = NoHr
    /\ thr = NoThreads
    /\ \E k \in UninitPrivateKeys, s \in UninitSecretKeys : device = NewDevice(k, s)
    /\ log = << >>
    /\ pc = "created"
    /\ subscribed = {}
    /\ now = 0
    /\ initial_timestamp = 0
    /\ enc = NoEnc
    /\ wire = << >>

\* what RAND_bytes may put into random_key
RandomKeys == { 29 }

\* prepare_pub_key: random_key is filled and not used again; the key pair is
\* made from device->privateKey; then prefix and public key
prepare_pub_key(dev, random_key) ==
    LET publicKey == IF ecdh_generate_keys_ok(dev.privateKey)
                     THEN ecdh_public_key(dev.privateKey)
                     ELSE dev.publicKey
    IN  [dev |-> [dev EXCEPT !.publicKey = publicKey],
         auth |-> PubKeyPrefix \o publicKey]

\* enable_notifications_chunked, with characteristic_enable_notifications_succeeded
EnableNotificationsChunked(ok, random_key) ==
    /\ pc = "created"
    /\ LET p == prepare_pub_key(device, random_key)
           ops == << NotificationStartOp("ChunkedR", ok) >>
                  \o (IF ok
                      THEN WriteChunkedOps("ChunkedW", 130, device.handle, p.auth, 52)
                      ELSE << >>)
       IN  /\ device' = IF ok THEN p.dev ELSE device
           /\ log' = Append(log, Event("enable", IF ok THEN << random_key >> ELSE << >>,
                                    [NoResult(device) EXCEPT !.ops = ops]))
    /\ subscribed' = IF ok THEN subscribed \cup {"ChunkedR"} ELSE subscribed
    /\ pc' = "running"
    /\ UNCHANGED << thr, hr, now, initial_timestamp, enc, wire >>

\* characteristic_value_updated for a chunked transfer read notification
NotifyChunked(value, junk, hrOk) ==
    /\ pc = "running"
    /\ "ChunkedR" \in subscribed
    /\ Len(log) < MaxEvents
    /\ LET r == ChunkedTransferRead(device, value, junk, hrOk)
       IN  /\ device' = r.dev
           /\ log' = Append(log, Event("chunked", value, r))
           /\ subscribed' = IF r.accepted /\ hrOk
                            THEN subscribed \cup {"HrMeasure"} ELSE subscribed
           /\ initial_timestamp' = IF r.accepted THEN now ELSE initial_timestamp
    /\ UNCHANGED << thr, hr, pc, now, enc, wire >>

\* notification_query: the 10 s timer of main
Ping ==
    /\ pc = "running"
    /\ Len(log) < MaxEvents
    /\ log' = Append(log, Event("ping", << >>,
                                [NoResult(device) EXCEPT !.ops = ping_heart_rate_ops]))
    /\ UNCHANGED << thr, hr, device, pc, subscribed, now, initial_timestamp, enc, wire >>

\* time(NULL) moves on
Tick ==
    /\ pc = "running"
    /\ now < MaxTime
    /\ now' = now + 1
    /\ UNCHANGED << thr, hr, device, log, pc, subscribed, initial_timestamp, enc, wire >>

Next ==
    \/ \E ok \in BOOLEAN, random_key \in RandomKeys :
           EnableNotificationsChunked(ok, random_key)
    \/ \E value \in Frames, junk \in JunkTails, hrOk \in BOOLEAN :
           NotifyChunked(value, junk, hrOk)
    \/ Ping
    \/ Tick

Spec == Init /\ [][Next]_vars

\* every transport operation so far, in order
Out == Flatten([i \in 1..Len(log) |-> log[i].ops])

(***************************************************************************)
(* Reading the log: what was written and what was received.                *)
(***************************************************************************)
\* the 32-bit little-endian total_length of a first frame
TotalLengthOf(frame) ==
    frame[6] + 256 * frame[7] + 65536 * frame[8] + 16777216 * frame[9]

IsChunkedWrite(o) == o.op = "write" /\ o.ch = "ChunkedW"

\* frame 0 of an outbound chunked message whose payload starts with byte b
IsMessageStart(o, b) ==
    /\ IsChunkedWrite(o)
    /\ Len(o.data) > FirstHeaderSize
    /\ o.data[5] = 0
    /\ o.data[FirstHeaderSize + 1] = b

WritesChallenge(e) == \E k \in 1..Len(e.ops) : IsMessageStart(e.ops[k], 5)

WritesPubKey(e) == \E k \in 1..Len(e.ops) : IsMessageStart(e.ops[k], 4)

StartsMeasurement(e) ==
    \E k \in 1..Len(e.ops) : e.ops[k].op = "notification_start" /\ e.ops[k].ch = "HrMeasure"

\* the payload slices of the frames an event wrote to the chunked write channel
PayloadWritten(e) ==
    Flatten([k \in 1..Len(e.ops) |->
        IF ~IsChunkedWrite(e.ops[k]) THEN << >>
        ELSE IF e.ops[k].data[5] = 0
        THEN SubSeq(e.ops[k].data, FirstHeaderSize + 1, Len(e.ops[k].data))
        ELSE SubSeq(e.ops[k].data, NextHeaderSize + 1, Len(e.ops[k].data))])

\* a well-formed inbound index-0 frame carrying the signature sig
IsFirstFrameWith(value, sig) ==
    /\ Len(value) >= RemoteHeaderSize
    /\ value[1] = 3
    /\ value[5] = 0
    /\ SubSeq(value, 10, 14) = sig

IsContinuation(value) == Len(value) >= ContHeaderSize /\ value[1] = 3 /\ value[5] > 0

\* events j..i are one remote-data message: its first frame, then continuation
\* frames numbered 1, 2, ..., together carrying exactly the declared bytes
IsRemoteMessage(j, i) ==
    /\ j <= i
    /\ log[j].kind = "chunked"
    /\ IsFirstFrameWith(log[j].value, RemoteDataSignature)
    /\ \A k \in (j + 1)..i :
          /\ log[k].kind = "chunked"
          /\ IsContinuation(log[k].value)
          /\ log[k].value[5] = k - j
    /\ (Len(log[j].value) - RemoteHeaderSize)
         + Len(Flatten([k \in 1..(i - j) |->
                 SubSeq(log[j + k].value, ContHeaderSize + 1, Len(log[j + k].value))]))
       = TotalLengthOf(log[j].value) - 3

\* the body of that message: the bytes after the signature, in arrival order
RemoteBody(j, i) ==
    SubSeq(log[j].value, RemoteHeaderSize + 1, Len(log[j].value))
    \o Flatten([k \in 1..(i - j) |->
           SubSeq(log[j + k].value, ContHeaderSize + 1, Len(log[j + k].value))])

(***************************************************************************)
(* C1.  A challenge message (33 bytes, command 0x05) is written to the     *)
(* chunked write channel only if the public-key message was sent before    *)
(* and a remote-data first frame was received and all its declared bytes   *)
(* arrived.  Stated as in the specification; the code violates it.         *)
(***************************************************************************)
C1_ChallengeOnlyAfterRemoteData ==
    \A i \in 1..Len(log) :
        WritesChallenge(log[i]) =>
            /\ \E e \in 1..(i - 1) : WritesPubKey(log[e])
            /\ \E j \in 1..i : IsRemoteMessage(j, i)

(***************************************************************************)
(* C2.  Measurement is started (heart-rate subscription, start and         *)
(* interval commands) only by an auth-accepted frame that arrives after a  *)
(* challenge was written.  Stated as in the specification; the code        *)
(* violates it.                                                            *)
(***************************************************************************)
C2_MeasurementOnlyAfterChallenge ==
    \A i \in 1..Len(log) :
        StartsMeasurement(log[i]) =>
            /\ log[i].kind = "chunked"
            /\ IsFirstFrameWith(log[i].value, AuthAcceptedSignature)
            /\ \E j \in 1..(i - 1) : WritesChallenge(log[j])

(***************************************************************************)
(* C3.  End to end: a remote-data first frame with total_length 35 and 16  *)
(* payload bytes writes nothing; when the continuation frame with index 1  *)
(* and 19 payload bytes follows it, a session key is derived and exactly   *)
(* one challenge message of 33 bytes, first byte 0x05, is written to the   *)
(* chunked write channel.                                                  *)
(***************************************************************************)
Is35First(e) ==
    /\ e.kind = "chunked"
    /\ IsFirstFrameWith(e.value, RemoteDataSignature)
    /\ TotalLengthOf(e.value) = 35
    /\ Len(e.value) = FirstHeaderSize + 16

Is35Next(e) ==
    /\ e.kind = "chunked"
    /\ IsContinuation(e.value)
    /\ e.value[5] = 1
    /\ Len(e.value) = ContHeaderSize + 19

C3_EndToEnd ==
    \A i \in 1..Len(log) :
        Is35First(log[i]) =>
            /\ \E e \in 1..(i - 1) : WritesPubKey(log[e])
            /\ log[i].ops = << >>
            /\ (i < Len(log) /\ Is35Next(log[i + 1])) =>
                  LET e == log[i + 1]
                      payload == PayloadWritten(e)
                  IN  /\ e.done
                      /\ Len(e.key) = NonceSize
                      /\ \A k \in 1..Len(e.ops) : IsChunkedWrite(e.ops[k])
                      /\ Cardinality({k \in 1..Len(e.ops) : e.ops[k].data[5] = 0}) = 1
                      /\ IsMessageStart(e.ops[1], 5)
                      /\ TotalLengthOf(e.ops[1].data) = 33
                      /\ Len(payload) = 33
                      /\ payload[1] = 5
                      /\ SubSeq(payload, 18, 33) = encrypt_aes_cbc(e.key, e.rnd)

C3_Witness ==
    \E i \in 1..(Len(log) - 1) :
        Is35First(log[i]) /\ Is35Next(log[i + 1]) /\ WritesChallenge(log[i + 1])

(***************************************************************************)
(* C4.  However a remote-data message is split into frames, the nonce that *)
(* is encrypted is the first 16 bytes of the reassembled body and the      *)
(* remote public key is what follows them.  Stated as in the               *)
(* specification; the code violates it.                                    *)
(***************************************************************************)
C4_NonceAndKeyFromReassembledBody ==
    \A j \in 1..Len(log) : \A i \in j..Len(log) :
        (IsRemoteMessage(j, i) /\ log[i].done) =>
            LET body == RemoteBody(j, i)
            IN  /\ log[i].rnd = SubSeq(body, 1, NonceSize)
                /\ SubSeq(log[i].pub, 1, Len(body) - NonceSize)
                     = SubSeq(body, NonceSize + 1, Len(body))

(***************************************************************************)
(* C5.  The challenge payload is a function of the local private key, the  *)
(* pre-shared key, the remote nonce and the remote public key alone:       *)
(* 0x05, Enc(pre-shared key, nonce), Enc(K, nonce) with                    *)
(* K[i] = shared_secret[8+i] XOR pre-shared key[i].  Stated as in the      *)
(* specification; the code violates it.                                    *)
(***************************************************************************)
C5_ChallengeDeterminedByInputs ==
    \A i \in 1..Len(log) :
        (IsRemoteMessage(i, i) /\ log[i].done) =>
            PayloadWritten(log[i])
              = ChallengeCommand(device.authKey,
                                 ecdh_shared_secret(device.privateKey, log[i].pub),
                                 log[i].rnd)

(***************************************************************************)
(* C6.  An index-0 frame with neither known signature is discarded: it     *)
(* writes nothing and leaves bytes_received_so_far (pointer) and           *)
(* expected_total_bytes (expectedBytes) unchanged.  Stated as in the       *)
(* specification; the code violates it.                                    *)
(***************************************************************************)
IsUnknownFirst(value) ==
    /\ Len(value) >= RemoteHeaderSize
    /\ value[1] = 3
    /\ value[5] = 0
    /\ SubSeq(value, 10, 14) # RemoteDataSignature
    /\ SubSeq(value, 10, 14) # AuthAcceptedSignature

C6_UnknownFirstFrameDiscarded ==
    [][ ( /\ Len(log') = Len(log) + 1
          /\ log'[Len(log')].kind = "chunked"
          /\ IsUnknownFirst(log'[Len(log')].value) )
        => ( /\ log'[Len(log')].ops = << >>
             /\ device'.pointer = device.pointer
             /\ device'.expectedBytes = device.expectedBytes ) ]_vars

(***************************************************************************)
(* The encoder run pass by pass, its frames then fed to the handler.       *)
(***************************************************************************)
PlainPayload(n) == Pattern(n, 7, 3)
SignedPayload(n) == << 16, 4, 1 >> \o Pattern(n - 3, 7, 3)

Payloads ==
    { PlainPayload(n) : n \in 0..MaxPayloadLen }
    \cup { SignedPayload(n) : n \in 3..MaxPayloadLen }

InitEnc ==
    /\ hr = NoHr
    /\ thr = NoThreads
    /\ device = NewDevice(11, [i \in 1..ECC_PUB_KEY_SIZE |-> 0])
    /\ log = << >>
    /\ pc = "encoding"
    /\ subscribed = {"ChunkedR"}
    /\ now = 0
    /\ initial_timestamp = 0
    /\ \E data \in Payloads, type \in {130, 5}, handle \in {0, 1} :
          enc = [data |-> data, type |-> type, handle |-> handle,
                 remaining |-> Len(data), count |-> 0,
                 header_size |-> FirstHeaderSize, fed |-> 0]
    /\ wire = << >>

\* one pass of the while (remaining > 0) loop of write_chunked_value
EncStep ==
    /\ pc = "encoding"
    /\ enc.remaining > 0
    /\ wire' = Append(wire, Chunk(enc.type, enc.handle, enc.data, Len(enc.data),
                                  enc.remaining, enc.count, enc.header_size))
    /\ enc' = [enc EXCEPT !.remaining = @ - CopyBytes(enc.remaining, enc.header_size),
                          !.header_size = NextHeaderSize,
                          !.count = @ + 1]
    /\ UNCHANGED << thr, hr, device, log, pc, subscribed, now, initial_timestamp >>

\* the loop ends
EncReturn ==
    /\ pc = "encoding"
    /\ enc.remaining = 0
    /\ pc' = "feeding"
    /\ UNCHANGED << thr, hr, device, log, subscribed, now, initial_timestamp, enc, wire >>

\* the next written frame arrives as a chunked transfer read notification
Feed(junk, hrOk) ==
    /\ pc = "feeding"
    /\ enc.fed < Len(wire)
    /\ LET value == wire[enc.fed + 1]
           r == ChunkedTransferRead(device, value, junk, hrOk)
       IN  /\ device' = r.dev
           /\ log' = Append(log, Event("chunked", value, r))
           /\ subscribed' = IF r.accepted /\ hrOk
                            THEN subscribed \cup {"HrMeasure"} ELSE subscribed
           /\ initial_timestamp' = IF r.accepted THEN now ELSE initial_timestamp
    /\ enc' = [enc EXCEPT !.fed = @ + 1]
    /\ UNCHANGED << thr, hr, pc, now, wire >>

FeedDone ==
    /\ pc = "feeding"
    /\ enc.fed = Len(wire)
    /\ pc' = "done"
    /\ UNCHANGED << thr, hr, device, log, subscribed, now, initial_timestamp, enc, wire >>

NextEnc ==
    \/ EncStep
    \/ EncReturn
    \/ \E junk \in JunkTails, hrOk \in BOOLEAN : Feed(junk, hrOk)
    \/ FeedDone

SpecEnc == InitEnc /\ [][NextEnc]_vars

\* the payload slice of the k-th written frame (k = 1 is frame 0)
SliceOf(k) ==
    IF k = 1 THEN SubSeq(wire[k], FirstHeaderSize + 1, Len(wire[k]))
    ELSE SubSeq(wire[k], NextHeaderSize + 1, Len(wire[k]))

HasFirstAndLastFlags(frame) == frame[2] % 2 = 1 /\ (frame[2] \div 2) % 4 = 3

(***************************************************************************)
(* C7.  Round trip: the frames the encoder writes for a payload, fed in    *)
(* order to the handler, complete exactly one message, on the last frame,  *)
(* whose type and body are the encoded ones.  Stated as in the             *)
(* specification; the code violates it.                                    *)
(***************************************************************************)
C7_RoundTrip ==
    pc = "done" =>
        /\ Cardinality({i \in 1..Len(log) : log[i].done}) = 1
        /\ Len(log) = Len(wire)
        /\ Len(log) >= 1
        /\ log[Len(log)].done
        /\ enc.type = 130
        /\ LET got == log[Len(log)].rnd \o log[Len(log)].pub
           IN  \/ SubSeq(got, 1, Len(enc.data)) = enc.data
               \/ /\ Len(enc.data) >= 3
                  /\ SubSeq(got, 1, Len(enc.data) - 3) = SubSeq(enc.data, 4, Len(enc.data))

(***************************************************************************)
(* C8.  Header sizing: the first-frame payload limit is 23 - 3 - 11 = 9; a *)
(* payload of exactly that many bytes is written as one frame with the     *)
(* first bit (0x01) and the last bits (0x06) set, and a payload one byte   *)
(* longer as exactly two frames.                                           *)
(***************************************************************************)
C8_HeaderSizing ==
    /\ MAX_CHUNKLENGTH(FirstHeaderSize) = 9
    /\ (pc # "encoding" /\ Len(enc.data) = MAX_CHUNKLENGTH(FirstHeaderSize)) =>
          /\ Len(wire) = 1
          /\ HasFirstAndLastFlags(wire[1])
    /\ (pc # "encoding" /\ Len(enc.data) = MAX_CHUNKLENGTH(FirstHeaderSize) + 1) =>
          Len(wire) = 2

C8_Witness ==
    /\ pc = "feeding"
    /\ Len(enc.data) = MAX_CHUNKLENGTH(FirstHeaderSize)
    /\ Len(wire) = 1
    /\ wire[1][2] = 7

(***************************************************************************)
(* C9.  A zero-length payload is written as exactly one frame: the 11-byte *)
(* first-frame header with total_length 0 and both flags set.  Stated as   *)
(* in the specification; the code violates it.                             *)
(***************************************************************************)
C9_EmptyPayloadOneFrame ==
    (pc # "encoding" /\ Len(enc.data) = 0) =>
        /\ Len(wire) = 1
        /\ Len(wire[1]) = FirstHeaderSize
        /\ TotalLengthOf(wire[1]) = 0
        /\ HasFirstAndLastFlags(wire[1])

(***************************************************************************)
(* C10.  The payload slices of the written frames, in write order, are the *)
(* payload: nothing lost, duplicated or reordered.  Frame 0 carries at     *)
(* most 9 bytes, a continuation frame at most 15, every frame but the last *)
(* is full, and no frame is longer than the 20 bytes the 23-byte unit      *)
(* leaves after the 3-byte transport overhead.                             *)
(***************************************************************************)
C10_SlicesArePayload ==
    /\ Flatten([k \in 1..Len(wire) |-> SliceOf(k)])
         = SubSeq(enc.data, 1, Len(enc.data) - enc.remaining)
    /\ pc # "encoding" => Flatten([k \in 1..Len(wire) |-> SliceOf(k)]) = enc.data
    /\ \A k \in 1..Len(wire) :
          /\ Len(SliceOf(k)) <= (IF k = 1 THEN 9 ELSE 15)
          /\ Len(wire[k]) <= mMTU - 3
          /\ (k < Len(wire) \/ enc.remaining > 0) =>
                Len(SliceOf(k)) = (IF k = 1 THEN 9 ELSE 15)

C10_Witness ==
    /\ pc = "feeding"
    /\ Len(wire) >= 3
    /\ Len(SliceOf(Len(wire))) < 15
    /\ Flatten([k \in 1..Len(wire) |-> SliceOf(k)]) = enc.data

(***************************************************************************)
(* C11.  In every encoded message flag bit 0 (0x01) is set on frame 0 and  *)
(* on no other frame, and the last-frame bits (0x06) are set on the final  *)
(* frame and on no other frame; a one-frame message has flag byte 0x07.    *)
(***************************************************************************)
C11_FlagBits ==
    pc # "encoding" =>
        /\ \A k \in 1..Len(wire) :
              /\ (wire[k][2] % 2 = 1) <=> (k = 1)
              /\ ((wire[k][2] \div 2) % 4 = 3) <=> (k = Len(wire))
              /\ ((wire[k][2] \div 2) % 4 = 0) <=> (k # Len(wire))
              /\ wire[k][2] < 8
        /\ Len(wire) = 1 => wire[1][2] = 7

C11_Witness ==
    /\ pc = "feeding"
    /\ Len(wire) >= 3
    /\ wire[1][2] = 1
    /\ wire[2][2] = 0
    /\ wire[Len(wire)][2] = 6

(***************************************************************************)
(* C12.  When subscribing to the chunked read channel succeeds, exactly    *)
(* one public-key message is written to the chunked write channel: type    *)
(* 0x0082, handle 0, total_length 4 + the public-key size, payload the     *)
(* prefix 04 02 00 02 and then the whole public key of the freshly drawn   *)
(* random private key.  Stated as in the specification; the code violates  *)
(* it.                                                                     *)
(***************************************************************************)
C12_PublicKeyMessage ==
    \A i \in 1..Len(log) :
        (log[i].kind = "enable" /\ log[i].ops[1].ret) =>
            LET e == log[i]
                random_key == e.value[1]
                frames == [k \in 1..(Len(e.ops) - 1) |-> e.ops[k + 1]]
            IN  /\ Len(frames) >= 1
                /\ \A k \in 1..Len(frames) :
                      IsChunkedWrite(frames[k]) /\ frames[k].data[4] = 0
                /\ Cardinality({k \in 1..Len(frames) : frames[k].data[5] = 0}) = 1
                /\ IsMessageStart(frames[1], 4)
                /\ SubSeq(frames[1].data, 10, 11) = << 130, 0 >>
                /\ TotalLengthOf(frames[1].data) = 4 + ECC_PUB_KEY_SIZE
                /\ device.privateKey = random_key
                /\ PayloadWritten(e) = PubKeyPrefix \o ecdh_public_key(random_key)

(***************************************************************************)
(* C13.  When a crypto primitive reports failure the handshake stops at    *)
(* that step: no public-key message after a failed key-pair generation,    *)
(* no challenge message after a failed shared-secret computation.  Stated  *)
(* as in the specification; the code violates it.                          *)
(***************************************************************************)
C13_CryptoFailureStops ==
    \A i \in 1..Len(log) :
        /\ (log[i].kind = "enable" /\ ~ecdh_generate_keys_ok(device.privateKey))
              => ~WritesPubKey(log[i])
        /\ (log[i].done /\ ~ecdh_shared_secret_ok(log[i].pub))
              => ~WritesChallenge(log[i])

(***************************************************************************)
(* C14.  A transport failure is fatal: once a subscribe or write has       *)
(* failed, the session writes nothing more.  Stated as in the              *)
(* specification; the code violates it.                                    *)
(***************************************************************************)
C14_NoWriteAfterTransportFailure ==
    \A k \in 1..Len(Out) :
        ~Out[k].ret => \A m \in (k + 1)..Len(Out) : Out[m].op # "write"

(***************************************************************************)
(* The heart-rate branch of characteristic_value_updated and the history  *)
(* buffer hrHist.  hrHist holds the rows written so far, row i of the C   *)
(* array at position i + 1; histSize is the number of rows allocated.     *)
(***************************************************************************)

\* send_alert: one write of the call notification
AlertCommand == << 3, 1, 10, 10, 10 >>

send_alert_ops == << WriteOp("Alert", AlertCommand) >>

\* a row malloc returned and nothing wrote
UninitRow == << 0, 0 >>

\* realloc as if it handed back fresh memory
GrowRowsFresh(hist) == << >>

\* realloc keeps the rows it is given
GrowRows(hist) == hist

\* the store made one row further on
StoreRowAfter(hist, index, row) ==
    [i \in 1..(IF index + 2 > Len(hist) THEN index + 2 ELSE Len(hist)) |->
        IF i = index + 2 THEN row
        ELSE IF i <= Len(hist) THEN hist[i] ELSE UninitRow]

\* hrHist[index][0] = elapsed; hrHist[index][1] = result
StoreRow(hist, index, row) ==
    IF index = Len(hist) THEN Append(hist, row)
    ELSE
    [i \in 1..(IF index + 1 > Len(hist) THEN index + 1 ELSE Len(hist)) |->
        IF i = index + 1 THEN row
        ELSE IF i <= Len(hist) THEN hist[i] ELSE UninitRow]

\* for (i = 0; i < hrCount; i++) sum += hrHist[i][1], over rows lo..hi
RECURSIVE SumRows(_, _, _)
SumRows(hist, lo, hi) ==
    IF lo > hi THEN 0
    ELSE IF lo = hi THEN hist[lo][2]
    ELSE LET mid == (lo + hi) \div 2
         IN  SumRows(hist, lo, mid) + SumRows(hist, mid + 1, hi)

\* the alert test with the count test off by one
AlertConditionEarly(result, sum, hrCount) ==
    hrCount >= 60 /\ result * hrCount < sum - 10 * hrCount

\* (hrCount > 60) && (result < mean - 10), mean = sum / hrCount in doubles;
\* for hrCount > 0 that is result * hrCount < sum - 10 * hrCount exactly
AlertCondition(result, sum, hrCount) ==
    hrCount > 60 /\ result * hrCount < sum - 10 * hrCount

\* The heart-rate branch.  allocOk: realloc and malloc of the growth gave
\* memory.  survive: the outcome of undefined behaviour (the stores through
\* a NULL tempArray, the store at hrHist[-1]): the handler runs on, or the
\* process dies.
HeartRateMeasure(dev, value, junk, allocOk, survive, elapsed) ==
    LET count1    == dev.hrCount + 1
        grow      == count1 = dev.histSize
        failed    == grow /\ ~allocOk
        histSize2 == IF ~grow THEN dev.histSize
                     ELSE IF allocOk THEN dev.histSize * 2
                     ELSE InitialHistSize
        count2    == IF failed THEN 0 ELSE count1
        hist2     == IF failed THEN << >>
                     ELSE IF grow THEN GrowRows(dev.hrHist)
                     ELSE dev.hrHist
        result    == ByteAt(value, 0, junk) * 256 + ByteAt(value, 1, junk)
        index     == count2 - 1
        inBounds  == index \in 0..(histSize2 - 1)
        hist3     == IF inBounds THEN StoreRow(hist2, index, << elapsed, result >>)
                     ELSE hist2
        undefined == failed \/ ~inBounds
        sum       == SumRows(hist3, 1, count2)
        ops       == IF AlertCondition(result, sum, count2)
                     THEN send_alert_ops ELSE << >>
    IN  IF undefined /\ ~survive
        THEN [dev |-> dev, crashed |-> TRUE, result |-> 0, index |-> index,
              grew |-> grow, ops |-> << >>]
        ELSE [dev |-> [dev EXCEPT !.hrCount = count2, !.histSize = histSize2,
                                  !.hrHist = hist3],
              crashed |-> FALSE, result |-> result, index |-> index,
              grew |-> grow, ops |-> ops]

\* a heart-rate notification arrives dt seconds after the previous event
NotifyHr(value, junk, allocOk, survive, dt) ==
    /\ pc = "running"
    /\ "HrMeasure" \in subscribed
    /\ LET r == HeartRateMeasure(device, value, junk, allocOk, survive,
                                 (now + dt) - initial_timestamp)
       IN  /\ device' = r.dev
           /\ pc' = IF r.crashed THEN "crashed" ELSE pc
           /\ hr' = [n |-> hr.n + 1, value |-> value, result |-> r.result,
                     index |-> r.index, grew |-> r.grew, allocOk |-> allocOk,
                     crashed |-> r.crashed, ops |-> r.ops,
                     failed |-> hr.failed \/ (r.grew /\ ~allocOk)]
    /\ now' = now + dt
    /\ UNCHANGED << thr, log, subscribed, initial_timestamp, enc, wire >>

(***************************************************************************)
(* SpecHr: a session past its handshake receives heart-rate               *)
(* notifications, one a second, the band reporting about RestingRate.     *)
(* A growth of the history buffer may find no memory.                     *)
(* SpecAlert: the same session, where the reports around the 60th may be  *)
(* lower.                                                                  *)
(***************************************************************************)
RestingRate == 300

\* the two bytes of a heart-rate notification, high byte first
HrBytes(v) == << v \div 256, v % 256 >>

\* the n-th report of a band at rest: the mean of any 3 in a row is RestingRate
HrSteady(n) == RestingRate + (n % 3) - 1

\* the reports the band may send as its n-th when the rate may drop
HrInputs(n) ==
    IF n = 61 THEN { HrBytes(RestingRate - 11), HrBytes(RestingRate - 10),
                     HrBytes(RestingRate - 9) }
    ELSE IF n \in 59..62 THEN { HrBytes(HrSteady(n)), HrBytes(RestingRate - 20) }
    ELSE { HrBytes(HrSteady(n)) }

\* what a growth of the buffer can meet: memory, or none
AllocOutcomes == IF device.hrCount + 1 = device.histSize THEN BOOLEAN ELSE { TRUE }

InitHr ==
    /\ hr = NoHr
    /\ thr = NoThreads
    /\ LET d0 == NewDevice(11, [i \in 1..ECC_PUB_KEY_SIZE |-> 0])
           p  == prepare_pub_key(d0, 29)
           e1 == Event("enable", << 29 >>,
                       [NoResult(d0) EXCEPT !.ops =
                           << NotificationStartOp("ChunkedR", TRUE) >>
                           \o WriteChunkedOps("ChunkedW", 130, d0.handle, p.auth, 52)])
           r  == ChunkedTransferRead(p.dev, FrameAccepted, << 0 >>, TRUE)
       IN  /\ device = r.dev
           /\ log = << e1, Event("chunked", FrameAccepted, r) >>
    /\ pc = "running"
    /\ subscribed = {"ChunkedR", "HrMeasure"}
    /\ now = 0
    /\ initial_timestamp = 0
    /\ enc = NoEnc
    /\ wire = << >>

NextHr ==
    /\ hr.n < MaxSamples
    /\ \E allocOk \in AllocOutcomes, survive \in BOOLEAN :
          NotifyHr(HrBytes(HrSteady(hr.n + 1)), << 0 >>, allocOk, survive, 1)

SpecHr == InitHr /\ [][NextHr]_vars

NextAlert ==
    /\ hr.n < MaxAlertSamples
    /\ \E value \in HrInputs(hr.n + 1), junk \in JunkTails, survive \in BOOLEAN :
          NotifyHr(value, junk, TRUE, survive, 1)

SpecAlert == InitHr /\ [][NextAlert]_vars

\* the value the code reads from a heart-rate notification
HrValueOf(value) == value[1] * 256 + value[2]

(***************************************************************************)
(* C15.  While buffer growth succeeds, every notification keeps all the    *)
(* rows stored before it unchanged and in place, and adds its own sample   *)
(* (elapsed seconds, value) at the position of its arrival; this holds     *)
(* across the growth steps, past 2 * 1000 + 1 samples.                     *)
(***************************************************************************)
C15_GrowthPreservesHistory ==
    [][ (hr'.n = hr.n + 1 /\ ~hr'.crashed /\ (hr'.grew => hr'.allocOk)
         /\ device.hrCount = hr.n)
        => /\ device'.hrCount = hr'.n
           /\ Len(device'.hrHist) = hr'.n
           /\ SubSeq(device'.hrHist, 1, hr.n) = device.hrHist
           /\ device'.hrHist[hr'.n]
                = << now' - initial_timestamp, HrValueOf(hr'.value) >>
           /\ device'.histSize > hr'.n ]_vars

C15_Witness ==
    /\ hr.n = 2 * InitialHistSize + 1
    /\ device.hrCount = hr.n
    /\ device.histSize = 4 * InitialHistSize
    /\ device.hrHist[1] = << 1, RestingRate >>
    /\ device.hrHist[InitialHistSize] = << InitialHistSize, HrSteady(InitialHistSize) >>
    /\ device.hrHist[2 * InitialHistSize + 1] = << 2 * InitialHistSize + 1, RestingRate - 1 >>

(***************************************************************************)
(* C16.  A failed growth allocation neither crashes the program nor        *)
(* writes out of bounds: the store becomes an empty buffer of the default  *)
(* capacity and the sample is written at an index within 0..capacity-1.    *)
(* Stated as in the specification; the code violates it.                   *)
(***************************************************************************)
C16_FailedGrowthIsSafe ==
    (hr.grew /\ ~hr.allocOk)
        => /\ ~hr.crashed
           /\ device.histSize = InitialHistSize
           /\ hr.index \in 0..(device.histSize - 1)

\* the samples in the store, summed
StoredSum == SumRows(device.hrHist, 1, device.hrCount)

(***************************************************************************)
(* C17.  With n samples stored, the newest of value v included, the alert  *)
(* is written exactly when n > 60 and v * n + 10 * n < sum of the n        *)
(* values, and it is one write of the call notification.  With 61 samples  *)
(* whose first 60 have mean m, a 61st of m - 11 alerts and one of m - 9    *)
(* does not.                                                               *)
(***************************************************************************)
C17_AlertRule ==
    (hr.n > 0 /\ ~hr.crashed /\ device.hrCount > 0)
        => LET n == device.hrCount
               v == HrValueOf(hr.value)
               m == SumRows(device.hrHist, 1, 60) \div 60
           IN  /\ hr.ops \in { << >>, send_alert_ops }
               /\ hr.ops = send_alert_ops
                     <=> (n > 60 /\ v * n + 10 * n < StoredSum)
               /\ (n = 61 /\ SumRows(device.hrHist, 1, 60) = 60 * m)
                     => /\ v = m - 11 => hr.ops = send_alert_ops
                        /\ v = m - 9 => hr.ops = << >>

C17_Witness ==
    /\ device.hrCount = 61
    /\ SumRows(device.hrHist, 1, 60) = 60 * RestingRate
    /\ HrValueOf(hr.value) = RestingRate - 11
    /\ hr.ops = send_alert_ops

\* the writes among the transport operations of an event
WritesOf(e) == SelectSeq(e.ops, LAMBDA o : o.op = "write")

(***************************************************************************)
(* C18.  A ping, in any session state, makes exactly two transport calls:  *)
(* writes of {0x15,0x01,0x01} and then {0x14,0x00,0x01} to the heart-rate  *)
(* control channel, the same writes in the same order as every             *)
(* authenticated entry made; it subscribes to nothing and leaves the       *)
(* device record (reassembly counters, keys, sample count, buffer), the    *)
(* subscriptions and the session start time unchanged.                     *)
(***************************************************************************)
C18_PingOnlyWritesCommands ==
    [][ (Len(log') = Len(log) + 1 /\ log'[Len(log')].kind = "ping")
        => /\ log'[Len(log')].ops
                = << [op |-> "write", ch |-> "HrControl", data |-> << 21, 1, 1 >>,
                      ret |-> TRUE],
                     [op |-> "write", ch |-> "HrControl", data |-> << 20, 0, 1 >>,
                      ret |-> TRUE] >>
           /\ \A i \in 1..Len(log) :
                 log[i].accepted
                    => SubSeq(WritesOf(log[i]), 1, 2) = log'[Len(log')].ops
           /\ device' = device
           /\ subscribed' = subscribed
           /\ initial_timestamp' = initial_timestamp ]_vars

C18_Witness ==
    \E i, j \in 1..Len(log) :
        /\ i < j
        /\ log[i].accepted
        /\ log[j].kind = "ping"
        /\ Len(log[j].ops) = 2

(***************************************************************************)
(* C19.  The challenge is written at most once per received remote-data    *)
(* first frame: between any two events that write a challenge, a new       *)
(* remote-data first frame was received.  Stated as in the specification;  *)
(* the code violates it.                                                   *)
(***************************************************************************)
C19_ChallengeOncePerRemoteData ==
    \A i, k \in 1..Len(log) :
        (i < k /\ WritesChallenge(log[i]) /\ WritesChallenge(log[k]))
            => \E j \in (i + 1)..k :
                  /\ log[j].kind = "chunked"
                  /\ IsFirstFrameWith(log[j].value, RemoteDataSignature)

(***************************************************************************)
(* SpecLen: the session receives remote-data messages whose declared       *)
(* total_length does not fit one byte, or is below the 3 signature bytes.  *)
(***************************************************************************)

\* declares 256 + 35 bytes and carries the first 32 after the signature
FrameLongFirst == FirstFrame(1, 0, 256 + 35, RemoteDataSignature, Pattern(32, 3, 40))
FrameLongNext == ContFrame(0, 0, 1, Pattern(32, 5, 90))
\* declares 2 bytes, fewer than the signature, with no body and with 255 bytes
FrameTinyEmpty == FirstFrame(7, 0, 2, RemoteDataSignature, << >>)
FrameTinyFull == FirstFrame(7, 0, 2, RemoteDataSignature, Pattern(255, 1, 0))

LenFrames == { FrameLongFirst, FrameLongNext, FrameTinyEmpty, FrameTinyFull,
               FrameNonce, FramePub }

NextLen ==
    \/ \E ok \in BOOLEAN, random_key \in RandomKeys :
           EnableNotificationsChunked(ok, random_key)
    \/ \E value \in LenFrames, junk \in JunkTails, hrOk \in BOOLEAN :
           NotifyChunked(value, junk, hrOk)

SpecLen == Init /\ [][NextLen]_vars

\* events j..k are a remote-data first frame and the continuation frames
\* numbered 1, 2, ... that followed it
IsMessagePrefix(j, k) ==
    /\ j <= k
    /\ log[j].kind = "chunked"
    /\ IsFirstFrameWith(log[j].value, RemoteDataSignature)
    /\ \A m \in (j + 1)..k :
          /\ log[m].kind = "chunked"
          /\ IsContinuation(log[m].value)
          /\ log[m].value[5] = m - j

(***************************************************************************)
(* C20.  A remote-data message is complete exactly on the frame at which   *)
(* the payload bytes accumulated since its first frame equal the 32-bit    *)
(* little-endian total_length of that first frame less 3, whatever the     *)
(* declared length.  Stated as in the specification; the code violates     *)
(* it.                                                                     *)
(***************************************************************************)
C20_CompleteAtDeclaredLength ==
    \A j, k \in 1..Len(log) :
        IsMessagePrefix(j, k)
            => (log[k].done
                   <=> Len(RemoteBody(j, k)) = TotalLengthOf(log[j].value) - 3)

(***************************************************************************)
(* C21.  Immediately after the frame that completes a remote-data message  *)
(* the count of bytes received is 0 again.  Stated as in the               *)
(* specification; the code violates it.                                    *)
(***************************************************************************)
C21_ResetOnCompletion ==
    (Len(log) > 0 /\ \E j \in 1..Len(log) : IsRemoteMessage(j, Len(log)))
        => device.pointer = 0

\* the challenge and public-key messages written so far: the first frame of
\* each outbound chunked message, in order
MessageStarts == SelectSeq(Out, LAMBDA o : IsChunkedWrite(o) /\ o.data[5] = 0)

(***************************************************************************)
(* C25.  Every outbound chunked message after the first carries a channel  *)
(* handle one greater than the message written before it; the first        *)
(* challenge carries handle 1 after the public-key message's handle 0.     *)
(* Stated as in the specification; the code violates it.                   *)
(***************************************************************************)
C25_HandleOneGreater ==
    \A m \in 2..Len(MessageStarts) :
        MessageStarts[m].data[4] = MessageStarts[m - 1].data[4] + 1

\* the positions of value a chain value[9] == sig[0] && ... && value[13] == sig[4]
\* reads: each one only if those before it matched
SignatureReads(value, junk, sig) ==
    { 8 + i : i \in { n \in 1..5 : \A m \in 1..(n - 1) : ByteAt(value, 8 + m, junk) = sig[m] } }

\* the positions of value the chunked transfer read branch reads before it
\* counts the bytes of the frame
ChunkedReads(value, junk) ==
    IF Len(value) <= 1 THEN { }
    ELSE IF value[1] # 3 THEN { 0 }
    ELSE IF ByteAt(value, 4, junk) > 0 THEN { 0, 4 }
    ELSE IF IsRemoteData(value, junk)
    THEN { 0, 4, 5 } \cup SignatureReads(value, junk, RemoteDataSignature)
    ELSE { 0, 4 } \cup SignatureReads(value, junk, RemoteDataSignature)
                 \cup SignatureReads(value, junk, AuthAcceptedSignature)

(***************************************************************************)
(* C23.  Handling a chunked transfer read frame reads only positions       *)
(* inside the frame, and adds to the count of bytes received a number      *)
(* between 0 and the length of the frame: a frame shorter than the header  *)
(* its branch assumes adds nothing.  Stated as in the specification; the   *)
(* code violates it.                                                       *)
(***************************************************************************)
C23_CountWithinFrame ==
    [][ (Len(log') = Len(log) + 1 /\ log'[Len(log')].kind = "chunked")
        => LET value == log'[Len(log')].value
               base == IF IsFirstFrameWith(value, RemoteDataSignature)
                       THEN 0 ELSE device.pointer
           IN  /\ \A junk \in JunkTails :
                     ChunkedReads(value, junk) \subseteq 0..(Len(value) - 1)
               /\ device'.pointer >= base
               /\ device'.pointer - base <= Len(value)
               /\ (Len(value) < ContHeaderSize => device'.pointer = device.pointer) ]_vars

(***************************************************************************)
(* SpecGap: the session receives remote-data messages whose continuation   *)
(* frames skip indices.                                                    *)
(***************************************************************************)

\* after Frame35First: index 2 where 1 is due, with the 19 bytes still missing
FrameGapLast == ContFrame(6, 0, 2, Pattern(19, 1, 29))
\* after Frame35First: indices 3 and 5, with 10 and 9 bytes
FrameGapMid == ContFrame(0, 0, 3, Pattern(10, 1, 29))
FrameGapEnd == ContFrame(6, 0, 5, Pattern(9, 1, 39))

GapFrames == { Frame35First, Frame35Next, FrameGapLast, FrameGapMid, FrameGapEnd,
               FrameNonce }

NextGap ==
    \/ \E ok \in BOOLEAN, random_key \in RandomKeys :
           EnableNotificationsChunked(ok, random_key)
    \/ \E value \in GapFrames, junk \in JunkTails, hrOk \in BOOLEAN :
           NotifyChunked(value, junk, hrOk)

SpecGap == Init /\ [][NextGap]_vars

(***************************************************************************)
(* C22.  A continuation frame whose index is not the last accepted index   *)
(* plus one is handled like any other: its payload bytes are counted, the  *)
(* last accepted index becomes its index, the expected total, the session  *)
(* position and the subscriptions stay as they were, and the message       *)
(* completes, with the challenge written, exactly if the count now equals  *)
(* the expected total.                                                     *)
(***************************************************************************)
C22_TolerantReassembly ==
    [][ (/\ Len(log') = Len(log) + 1
         /\ log'[Len(log')].kind = "chunked"
         /\ IsContinuation(log'[Len(log')].value)
         /\ log'[Len(log')].value[5] # device.lastSequenceNumber + 1)
        => LET e == log'[Len(log')]
               counted == device.pointer + (Len(e.value) - ContHeaderSize)
           IN  /\ device'.pointer = counted
               /\ device'.lastSequenceNumber = e.value[5]
               /\ device'.expectedBytes = device.expectedBytes
               /\ pc' = pc
               /\ subscribed' = subscribed
               /\ e.done <=> counted = device.expectedBytes
               /\ e.done <=> WritesChallenge(e) ]_vars

C22_Witness ==
    /\ Len(log) = 3
    /\ log[2].value = Frame35First
    /\ ~log[2].done
    /\ log[3].value = FrameGapLast
    /\ log[3].done
    /\ WritesChallenge(log[3])
    /\ device.lastSequenceNumber = 2

(***************************************************************************)
(* SpecClock: a measuring session receives heart-rate notifications as     *)
(* the clock moves on, and the band may repeat its auth-accepted frame.    *)
(***************************************************************************)

\* seconds between one notification and the next
TimeSteps == { 0, 1 }

NextClock ==
    \/ /\ hr.n < MaxClockSamples
       /\ \E dt \in TimeSteps, junk \in JunkTails, survive \in BOOLEAN :
             NotifyHr(HrBytes(HrSteady(hr.n + 1)), junk, TRUE, survive, dt)
    \/ \E junk \in JunkTails, hrOk \in BOOLEAN :
           NotifyChunked(FrameAccepted, junk, hrOk)

SpecClock == InitHr /\ [][NextClock]_vars

(***************************************************************************)
(* C24.  The elapsed seconds of the stored samples are non-negative and    *)
(* non-decreasing in insertion order, the clock never going back and the   *)
(* session start time being set once.  Stated as in the specification;     *)
(* the code violates it.                                                   *)
(***************************************************************************)
C24_ElapsedNonDecreasing ==
    \A i, j \in 1..Len(device.hrHist) :
        i <= j => (0 <= device.hrHist[i][1] /\ device.hrHist[i][1] <= device.hrHist[j][1])

(***************************************************************************)
(* SpecType: the encoder is handed message types of two bytes, and a       *)
(* payload that takes more than 256 frames.                                *)
(***************************************************************************)
WideTypes == { 130, 256 + 130, 65535 }

\* the shortest payload of 257 frames: 9 bytes, 255 times 15, and 1
LongPayload ==
    PlainPayload(MAX_CHUNKLENGTH(FirstHeaderSize) + 255 * MAX_CHUNKLENGTH(NextHeaderSize) + 1)

InitType ==
    /\ hr = NoHr
    /\ thr = NoThreads
    /\ device = NewDevice(11, [i \in 1..ECC_PUB_KEY_SIZE |-> 0])
    /\ log = << >>
    /\ pc = "encoding"
    /\ subscribed = {"ChunkedR"}
    /\ now = 0
    /\ initial_timestamp = 0
    /\ \E data \in { PlainPayload(n) : n \in 1..MaxPayloadLen } \cup { LongPayload },
          type \in WideTypes :
          enc = [data |-> data, type |-> type, handle |-> 1,
                 remaining |-> Len(data), count |-> 0,
                 header_size |-> FirstHeaderSize, fed |-> 0]
    /\ wire = << >>

NextType ==
    \/ EncStep
    \/ EncReturn

SpecType == InitType /\ [][NextType]_vars

(***************************************************************************)
(* C26.  Frame k (from 0) of an encoded message starts 0x03, flags, 0,     *)
(* the channel handle, k; frame 0 carries next the payload length in 4     *)
(* bytes and the message type in 2 bytes, both low byte first.  For every  *)
(* payload length and every 16-bit type.  Stated as in the                 *)
(* specification; the code violates it.                                    *)
(***************************************************************************)
C26_HeaderFields ==
    \A k \in 1..Len(wire) :
        /\ Len(wire[k]) >= NextHeaderSize
        /\ wire[k][1] = 3
        /\ wire[k][3] = 0
        /\ wire[k][4] = enc.handle
        /\ wire[k][5] = k - 1
        /\ k = 1 => /\ Len(wire[k]) >= FirstHeaderSize
                    /\ TotalLengthOf(wire[k]) = Len(enc.data)
                    /\ wire[k][10] + 256 * wire[k][11] = enc.type

\* a capacity the buffer can have: 1000 doubled some number of times
RECURSIVE IsCapacity(_)
IsCapacity(c) ==
    \/ c = InitialHistSize
    \/ (c > InitialHistSize /\ c % 2 = 0 /\ IsCapacity(c \div 2))

(***************************************************************************)
(* C28.  While no growth of the buffer has failed: the sample count is     *)
(* the number of heart-rate notifications handled (it goes up by one with  *)
(* each and never down), 0 <= count < capacity, the capacity is 1000       *)
(* doubled some number of times, and the latest notification wrote its     *)
(* sample at index count - 1, a row of the buffer.                         *)
(***************************************************************************)
C28_CountAndCapacity ==
    ~hr.failed
        => /\ device.hrCount = hr.n
           /\ 0 <= device.hrCount
           /\ device.hrCount < device.histSize
           /\ IsCapacity(device.histSize)
           /\ Len(device.hrHist) = device.hrCount
           /\ hr.n > 0
                 => /\ hr.index = device.hrCount - 1
                    /\ hr.index \in 0..(device.histSize - 1)
                    /\ device.hrHist[hr.index + 1][2] = HrValueOf(hr.value)

C28_Witness ==
    /\ ~hr.failed
    /\ hr.grew
    /\ device.hrCount = InitialHistSize
    /\ device.histSize = 2 * InitialHistSize
    /\ hr.index = InitialHistSize - 1

(***************************************************************************)
(* SpecRace: heart-rate notifications dispatched on threads of their own.  *)
(* The handler takes no lock, so its statements interleave; thread t       *)
(* handles a notification of value RestingRate + t.                        *)
(***************************************************************************)

\* device->hrCount += 1: the load
RaceLoad(t) ==
    /\ thr[t].at = "wait"
    /\ thr' = [thr EXCEPT ![t] = [at |-> "loaded", reg |-> device.hrCount]]
    /\ UNCHANGED << device, log, pc, subscribed, now, initial_timestamp, enc, wire, hr >>

\* device->hrCount += 1: the store
RaceCount(t) ==
    /\ thr[t].at = "loaded"
    /\ device' = [device EXCEPT !.hrCount = thr[t].reg + 1]
    /\ thr' = [thr EXCEPT ![t].at = "counted"]
    /\ UNCHANGED << log, pc, subscribed, now, initial_timestamp, enc, wire, hr >>

\* the stores to hrHist[hrCount - 1], where no growth is due
RaceRecord(t) ==
    /\ thr[t].at = "counted"
    /\ device.hrCount # device.histSize
    /\ device' = [device EXCEPT !.hrHist =
                     StoreRow(@, device.hrCount - 1,
                              << now - initial_timestamp, RestingRate + t >>)]
    /\ thr' = [thr EXCEPT ![t].at = "recorded"]
    /\ UNCHANGED << log, pc, subscribed, now, initial_timestamp, enc, wire, hr >>

\* the mean and the alert test, which no count this small passes
RaceAlert(t) ==
    /\ thr[t].at = "recorded"
    /\ ~AlertCondition(RestingRate + t,
                       SumRows(device.hrHist, 1, device.hrCount), device.hrCount)
    /\ thr' = [thr EXCEPT ![t].at = "done"]
    /\ UNCHANGED << device, log, pc, subscribed, now, initial_timestamp, enc, wire, hr >>

NextRace ==
    \E t \in 1..MaxDispatches :
        \/ RaceLoad(t)
        \/ RaceCount(t)
        \/ RaceRecord(t)
        \/ RaceAlert(t)

SpecRace == InitHr /\ [][NextRace]_vars

(***************************************************************************)
(* C27.  Handler invocations running on different threads behave as if     *)
(* each ran alone: when all have returned, the sample count is the number  *)
(* of invocations and every invocation's sample is in a row of its own.    *)
(* Stated as in the specification; the code violates it.                   *)
(***************************************************************************)
C27_DispatchAtomic ==
    (\A t \in 1..MaxDispatches : thr[t].at = "done")
        => /\ device.hrCount = MaxDispatches
           /\ Len(device.hrHist) = MaxDispatches
           /\ \A t \in 1..MaxDispatches :
                 \E i \in 1..Len(device.hrHist) : device.hrHist[i][2] = RestingRate + t

====
